---- MODULE Spec2Model ----
(***************************************************************************)
(* Model of the EFFE event hub (event-hub.ts): Channel<TData> and EventHub, *)
(* and of BaseConnector.addEventHub (connector.ts).                        *)
(* Every public operation is one action; the callbacks a publish or a      *)
(* replay invokes run synchronously inside that action, so an action       *)
(* computes the whole call, nested calls made by callbacks included.       *)
(***************************************************************************)
EXTENDS Integers, Sequences, FiniteSets, TLC

VARIABLES
    world,       \* the channel names and callbacks the application uses
    channels,    \* EventHub._channels: name -> Channel
    handles,     \* the Subscription handles subscribe calls have returned
    subscribed,  \* per channel, the number of Channel.subscribe calls so far
    npublish,    \* the number of top-level publish calls so far
    last,        \* the last call made on the hub, with its outcome
    connector    \* a connector: its fields and the calls it has received

vars == <<world, channels, handles, subscribed, npublish, last, connector>>

(* ---------------------------------------------------------------------- *)
(* Bounds and input sets                                                   *)
(* ---------------------------------------------------------------------- *)

\* Channel.subscribe calls made on the hub's channels, over all channels.
MaxSubscribes == 3

\* Top-level publish calls (EventHub.publish or Channel.publish).
MaxPublishes == 2

\* addEventHub calls made on the connector.
MaxHubs == 3

\* export const WildCardChannel = '*'
WildCardChannel == "*"

\* Channel names the callers use.
Names == {WildCardChannel, "a", "b"}

\* The names used where callbacks call back into the hub.
FewNames == {WildCardChannel, "a"}

\* Names of properties every JavaScript object inherits from
\* Object.prototype, as `_channels = {}` does.
ObjectPrototype == {"constructor", "toString"}

\* The names of an application that also uses the empty string and
\* inherited property names as channel names.
OddNames == {WildCardChannel, ""} \cup ObjectPrototype

\* The value of a TData | undefined field that was never assigned.
Undefined == "undefined"

\* Published payloads, named by their JavaScript literal: "" is the empty
\* string, "false" the boolean false, "0" the number zero.
Data == {"", "x"}

\* The payload a re-entrant publisher callback publishes.
NestedData == "nested"

\* Mutant of Truthy: the replay test without the test of the last event.
Truthy_Always(v) == TRUE

\* JavaScript ToBoolean, as applied by `replay && lastEvent`.
Truthy(v) == v \notin {Undefined, "", "false", "0", "null", "NaN"}

(* ---------------------------------------------------------------------- *)
(* Callbacks (EventCallback<TData>): caller-supplied functions.            *)
(*   rec          records the envelope and returns                         *)
(*   thrower      throws                                                   *)
(*   publisher    publishes NestedData on the channel that invoked it,     *)
(*                unless the envelope already carries NestedData           *)
(*   unsubscriber calls unsubscribe on every handle held for that channel  *)
(*   wildcardUnsubscriber                                                  *)
(*                calls unsubscribe on every handle held for the wildcard  *)
(*                channel                                                  *)
(*   subscriber   subscribes a rec callback to that channel, no replay,    *)
(*                and drops the handle it gets                             *)
(*   replaySubscriber                                                      *)
(*                the same with replay                                     *)
(* ---------------------------------------------------------------------- *)
Interfering(cb) == cb # "rec"

(* ---------------------------------------------------------------------- *)
(* Channel<TData>                                                          *)
(* ---------------------------------------------------------------------- *)

\* Mutant of Channel: the name given is not kept.
Channel_Unnamed(name) ==
    [name |-> "", lastEvent |-> Undefined, lastId |-> 0, callbacks |-> << >>]

\* Mutant of Channel: a new channel already retains a value.
Channel_Preloaded(name) ==
    [name |-> name, lastEvent |-> "x", lastId |-> 0, callbacks |-> << >>]

\* new Channel(name): _name = name, _lastEvent undefined, _lastId = 0,
\* _callbacks = {}.
Channel(name) ==
    [name |-> name, lastEvent |-> Undefined, lastId |-> 0, callbacks |-> << >>]

\* Mutant of getNextId: the id taken from the number of callbacks held.
getNextId_FromCount(ch) == Cardinality(DOMAIN ch.callbacks) + 1

\* getNextId(): return ++this._lastId
getNextId(ch) == ch.lastId + 1

RECURSIVE Ascending(_)
Ascending(ids) ==
    IF ids = {} THEN << >>
    ELSE LET m == CHOOSE x \in ids : \A y \in ids : x <= y
         IN  <<m>> \o Ascending(ids \ {m})

\* Mutant of ObjectValues: the callbacks newest first.
ObjectValues_NewestFirst(callbacks) ==
    LET ids == Ascending(DOMAIN callbacks)
        n == Len(ids)
    IN  [i \in 1..n |-> [id |-> ids[n + 1 - i], cb |-> callbacks[ids[n + 1 - i]]]]

\* Object.values(this._callbacks): the callbacks in ascending order of their
\* integer keys, taken once before the forEach starts. Each element keeps
\* its key next to the callback so that an invocation can be attributed.
ObjectValues(callbacks) ==
    LET ids == Ascending(DOMAIN callbacks)
    IN  [i \in 1..Len(ids) |-> [id |-> ids[i], cb |-> callbacks[ids[i]]]]

\* Mutant of DeleteCallback: the whole mapping is dropped.
DeleteCallback_All(callbacks, id) == << >>

\* delete this._callbacks[id]
DeleteCallback(callbacks, id) ==
    [i \in (DOMAIN callbacks) \ {id} |-> callbacks[i]]

\* Mutant of Unsubscribe: the id counter is given back with the id.
Unsubscribe_GivesIdBack(S, h) ==
    [S EXCEPT !.channels[h.chan].callbacks = DeleteCallback(@, h.id),
              !.channels[h.chan].lastId = IF @ > 0 THEN @ - 1 ELSE 0]

\* Mutant of Unsubscribe: the callback stays registered.
Unsubscribe_NoOp(S, h) == S

\* The unsubscribe closure of a Subscription, bound to its channel and id.
Unsubscribe(S, h) ==
    [S EXCEPT !.channels[h.chan].callbacks = DeleteCallback(@, h.id)]

RECURSIVE UnsubscribeAll(_, _)
UnsubscribeAll(S, hs) ==
    IF hs = {} THEN S
    ELSE LET h == CHOOSE x \in hs : TRUE
         IN  UnsubscribeAll(Unsubscribe(S, h), hs \ {h})

\* Mutant of SetLastEvent: only the first published value is retained.
SetLastEvent_FirstOnly(ch, data) ==
    IF ch.lastEvent = Undefined THEN [ch EXCEPT !.lastEvent = data] ELSE ch

\* this._lastEvent = data
SetLastEvent(ch, data) == [ch EXCEPT !.lastEvent = data]

\* Mutant of EventMessage: the envelope names no channel.
EventMessage_Anonymous(ch, data) == [channel |-> Undefined, data |-> data]

\* Mutant of EventMessage: the envelope names the wildcard channel.
EventMessage_Wildcard(ch, data) == [channel |-> WildCardChannel, data |-> data]

\* The envelope a channel hands to a callback: {channel: this.name, data}.
EventMessage(ch, data) == [channel |-> ch.name, data |-> data]

RECURSIVE Channel_subscribe(_, _, _, _)
RECURSIVE Channel_publish(_, _, _)
RECURSIVE FanOut(_, _, _, _, _)
RECURSIVE Invoke(_, _, _, _, _, _)

\* callback(message): the invocation is recorded in the trace, then the
\* callback's own code runs. An exception a nested call raised propagates.
Invoke(S, c, id, cb, message, call) ==
    LET S1 == [S EXCEPT !.trace = Append(@,
                  [call |-> call, chan |-> c, id |-> id, cb |-> cb,
                   channel |-> message.channel, data |-> message.data])]
    IN  CASE cb = "thrower" -> [S1 EXCEPT !.threw = TRUE]
          [] cb = "publisher" ->
                 IF message.data # NestedData
                 THEN Channel_publish(S1, c, NestedData)
                 ELSE S1
          [] cb = "unsubscriber" ->
                 UnsubscribeAll(S1, {h \in S1.handles : h.chan = c})
          [] cb = "wildcardUnsubscriber" ->
                 UnsubscribeAll(S1, {h \in S1.handles : h.chan = WildCardChannel})
          [] cb = "subscriber" ->
                 [Channel_subscribe(S1, c, "rec", FALSE)
                     EXCEPT !.handles = S1.handles, !.ret = S1.ret]
          [] cb = "replaySubscriber" ->
                 [Channel_subscribe(S1, c, "rec", TRUE)
                     EXCEPT !.handles = S1.handles, !.ret = S1.ret]
          [] OTHER -> S1

\* Mutant of Channel_subscribe: a callback that is registered already is
\* not registered again, the call returns the id it has.
Channel_subscribe_ByCallback(S, c, callback, replay) ==
    LET callbacks == S.channels[c].callbacks
        id == IF \E i \in DOMAIN callbacks : callbacks[i] = callback
              THEN CHOOSE i \in DOMAIN callbacks : callbacks[i] = callback
              ELSE getNextId(S.channels[c])
    IN  [S EXCEPT !.channels[c].lastId = IF id > @ THEN id ELSE @,
                  !.channels[c].callbacks = (id :> callback) @@ @,
                  !.subscribed[c] = @ + 1,
                  !.handles = @ \cup {[chan |-> c, id |-> id]},
                  !.ret = id]

\* Mutant of Channel_subscribe: the id counter is not stored.
Channel_subscribe_StaleCounter(S, c, callback, replay) ==
    LET id == getNextId(S.channels[c])
    IN  [S EXCEPT !.channels[c].callbacks = @ @@ (id :> callback),
                  !.subscribed[c] = @ + 1,
                  !.handles = @ \cup {[chan |-> c, id |-> id]},
                  !.ret = id]

\* Mutant of Channel_subscribe: the replay is made by publishing the
\* retained value again.
Channel_subscribe_ReplayPublishes(S, c, callback, replay) ==
    LET id == getNextId(S.channels[c])
        lastEvent == S.channels[c].lastEvent
        S1 == [S EXCEPT !.channels[c].lastId = id,
                        !.channels[c].callbacks = @ @@ (id :> callback),
                        !.subscribed[c] = @ + 1]
        S2 == IF replay /\ Truthy(lastEvent)
              THEN Channel_publish(S1, c, lastEvent)
              ELSE S1
    IN  IF S2.threw THEN S2
        ELSE [S2 EXCEPT !.handles = @ \cup {[chan |-> c, id |-> id]},
                        !.ret = id]

\* Channel.subscribe(callback, replay)
Channel_subscribe(S, c, callback, replay) ==
    LET id == getNextId(S.channels[c])
        lastEvent == S.channels[c].lastEvent
        S1 == [S EXCEPT !.channels[c].lastId = id,
                        !.channels[c].callbacks = @ @@ (id :> callback),
                        !.subscribed[c] = @ + 1]
        S2 == IF replay /\ Truthy(lastEvent)
              THEN Invoke(S1, c, id, callback,
                          EventMessage(S1.channels[c], lastEvent), 0)
              ELSE S1
    IN  IF S2.threw THEN S2
        ELSE [S2 EXCEPT !.handles = @ \cup {[chan |-> c, id |-> id]},
                        !.ret = id]

\* Mutant of FanOut: a callback that is registered no more when its turn
\* comes is passed over.
FanOut_Live(S, c, call, values, i) ==
    IF S.threw \/ i > Len(values) THEN S
    ELSE FanOut(IF values[i].id \in DOMAIN S.channels[c].callbacks
                THEN Invoke(S, c, values[i].id, values[i].cb,
                            EventMessage(S.channels[c], S.calls[call].data), call)
                ELSE S,
                c, call, values, i + 1)

\* The forEach over the array Object.values returned: i is the next index,
\* call the position of this publish in S.calls.
FanOut(S, c, call, values, i) ==
    IF S.threw \/ i > Len(values) THEN S
    ELSE FanOut(Invoke(S, c, values[i].id, values[i].cb,
                       EventMessage(S.channels[c], S.calls[call].data), call),
                c, call, values, i + 1)

\* Mutant of Channel_publish: the value is retained and the call recorded,
\* the callbacks are left for later.
Channel_publish_Deferred(S, c, data) ==
    LET values == ObjectValues(S.channels[c].callbacks)
    IN  [S EXCEPT !.channels[c] = SetLastEvent(@, data),
                  !.calls = Append(@,
                      [chan |-> c, data |-> data, returned |-> TRUE,
                       ids |-> [i \in 1..Len(values) |-> values[i].id],
                       quiet |-> TRUE])]

\* Mutant of Channel_publish: a publish that a callback's exception ended
\* gives the channel its former retained value back.
Channel_publish_RollsBack(S, c, data) ==
    LET values == ObjectValues(S.channels[c].callbacks)
        S1 == [S EXCEPT !.channels[c] = SetLastEvent(@, data),
                        !.calls = Append(@,
                            [chan |-> c, data |-> data, returned |-> FALSE,
                             ids |-> [i \in 1..Len(values) |-> values[i].id],
                             quiet |-> \A i \in 1..Len(values) :
                                          ~Interfering(values[i].cb)])]
        call == Len(S1.calls)
        S2 == FanOut(S1, c, call, values, 1)
    IN  IF S2.threw
        THEN [S2 EXCEPT !.channels[c].lastEvent = S.channels[c].lastEvent]
        ELSE [S2 EXCEPT !.calls[call].returned = TRUE]

\* Channel.publish(data)
Channel_publish(S, c, data) ==
    LET values == ObjectValues(S.channels[c].callbacks)
        S1 == [S EXCEPT !.channels[c] = SetLastEvent(@, data),
                        !.calls = Append(@,
                            [chan |-> c, data |-> data, returned |-> FALSE,
                             ids |-> [i \in 1..Len(values) |-> values[i].id],
                             quiet |-> \A i \in 1..Len(values) :
                                          ~Interfering(values[i].cb)])]
        call == Len(S1.calls)
        S2 == FanOut(S1, c, call, values, 1)
    IN  [S2 EXCEPT !.calls[call].returned = ~S2.threw]

(* ---------------------------------------------------------------------- *)
(* EventHub                                                                *)
(* ---------------------------------------------------------------------- *)

\* Mutant of EventHub: the hub is constructed with a second channel.
EventHub_WithDefaultChannel ==
    (WildCardChannel :> Channel(WildCardChannel)) @@ ("a" :> Channel("a"))

\* constructor(): this._channels[WildCardChannel] = new Channel(WildCardChannel)
EventHub == (WildCardChannel :> Channel(WildCardChannel))

\* this._channels[channel], a property read on a plain object: the Channel
\* stored under that key, else the value Object.prototype has under that
\* name (a function, never a Channel), else undefined.
Entry(chs, channel) ==
    IF channel \in DOMAIN chs THEN "channel"
    ELSE IF channel \in ObjectPrototype THEN "inherited"
    ELSE Undefined

\* Mutant of EnsureChannel: a new Channel is stored on every call.
EnsureChannel_Recreate(S, channel) ==
    [S EXCEPT !.channels = (channel :> Channel(channel)) @@ @,
              !.subscribed = @ @@ (channel :> 0)]

\* if (!this._channels[channel]) this._channels[channel] = new Channel(channel)
EnsureChannel(S, channel) ==
    IF Entry(S.channels, channel) # Undefined THEN S
    ELSE [S EXCEPT !.channels = @ @@ (channel :> Channel(channel)),
                   !.subscribed = @ @@ (channel :> 0)]

\* A method call on this._channels[channel] where that is no Channel:
\* TypeError, the inherited value has no such method.
NotAFunction(S) == [S EXCEPT !.threw = TRUE]

\* EventHub.subscribe(channel, callback, replay)
EventHub_subscribe(S, channel, callback, replay) ==
    LET S1 == EnsureChannel(S, channel)
    IN  IF Entry(S1.channels, channel) = "channel"
        THEN Channel_subscribe(S1, channel, callback, replay)
        ELSE NotAFunction(S1)

\* Mutant of EventHub_publish: the named channel alone is published to.
EventHub_publish_NamedOnly(S, channel, data) ==
    LET S1 == EnsureChannel(S, channel)
    IN  IF Entry(S1.channels, channel) = "channel"
        THEN Channel_publish(S1, channel, data)
        ELSE NotAFunction(S1)

\* Mutant of EventHub_publish: an exception of the named channel's publish
\* is held back until the wildcard channel was published to.
EventHub_publish_Catches(S, channel, data) ==
    LET S1 == EventHub_publish_NamedOnly(S, channel, data)
        S2 == Channel_publish([S1 EXCEPT !.threw = FALSE], WildCardChannel, data)
    IN  [S2 EXCEPT !.threw = S1.threw \/ S2.threw]

\* Mutant of EventHub_publish: the wildcard channel is served first.
EventHub_publish_WildcardFirst(S, channel, data) ==
    LET S0 == EnsureChannel(S, channel)
        S1 == Channel_publish(S0, WildCardChannel, data)
        S2 == IF S1.threw THEN S1 ELSE Channel_publish(S1, WildCardChannel, data)
    IN  IF S2.threw THEN S2 ELSE Channel_publish(S2, channel, data)

\* Mutant of EventHub_publish: one more channel of the hub is published to.
EventHub_publish_Everyone(S, channel, data) ==
    LET S3 == EventHub_publish_NamedOnly(S, channel, data)
        others == (DOMAIN S3.channels) \ {channel, WildCardChannel}
    IN  IF S3.threw \/ others = {} THEN S3
        ELSE Channel_publish(S3, CHOOSE c \in others : TRUE, data)

\* EventHub.publish(channel, data): the named channel, then the wildcard
\* channel, which the code publishes to in two consecutive statements.
EventHub_publish(S, channel, data) ==
    LET S0 == EnsureChannel(S, channel)
        S1 == IF Entry(S0.channels, channel) = "channel"
              THEN Channel_publish(S0, channel, data)
              ELSE NotAFunction(S0)
        S2 == IF S1.threw THEN S1 ELSE Channel_publish(S1, WildCardChannel, data)
        S3 == IF S2.threw THEN S2 ELSE Channel_publish(S2, WildCardChannel, data)
    IN  S3

\* Mutant of EventHub_lastEvent: the value read is taken from the channel.
EventHub_lastEvent_Consumes(S, channel) ==
    LET S1 == EnsureChannel(S, channel)
    IN  IF Entry(S1.channels, channel) = "channel"
        THEN [S1 EXCEPT !.ret = S1.channels[channel].lastEvent,
                        !.channels[channel].lastEvent = Undefined]
        ELSE [S1 EXCEPT !.ret = Undefined]

\* EventHub.lastEvent(channel): the lastEvent property of what
\* this._channels[channel] is; an inherited value has none.
EventHub_lastEvent(S, channel) ==
    LET S1 == EnsureChannel(S, channel)
    IN  [S1 EXCEPT !.ret = IF Entry(S1.channels, channel) = "channel"
                           THEN S1.channels[channel].lastEvent
                           ELSE Undefined]

(* ---------------------------------------------------------------------- *)
(* BaseConnector                                                           *)
(* ---------------------------------------------------------------------- *)

\* The EventHub instances a connector is given, by identity.
Hubs == {"hub1", "hub2", "hub3"}

\* The channel lists a connector class gives its `channels` field.
ChannelLists == {<< >>, <<"a">>, <<"a", WildCardChannel>>}

\* A new connector: channels = [], eventHubs = []. `initialised` is the
\* list of the initialiseEventHub calls it has received, `asked` the hubs
\* its addEventHub was called with, `ret` what the last of these calls
\* returned.
BaseConnector ==
    [channels |-> << >>, eventHubs |-> << >>, initialised |-> << >>,
     asked |-> << >>, ret |-> Undefined]

\* initialiseEventHub(hub, channels) is abstract: the call is recorded with
\* its arguments and the eventHubs list it finds.
initialiseEventHub(conn, hub, chs) ==
    [conn EXCEPT !.initialised = Append(@,
        [hub |-> hub, channels |-> chs, eventHubs |-> conn.eventHubs])]

\* Mutant of addEventHub: a hub the connector has already is not added again.
addEventHub_Once(conn, hub) ==
    IF \E i \in DOMAIN conn.eventHubs : conn.eventHubs[i] = hub
    THEN [conn EXCEPT !.ret = "this"]
    ELSE [initialiseEventHub([conn EXCEPT !.eventHubs = Append(@, hub)],
                             hub, conn.channels)
            EXCEPT !.ret = "this"]

\* addEventHub(hub): push, initialiseEventHub(hub, this.channels), return this
addEventHub(conn, hub) ==
    LET pushed == [conn EXCEPT !.eventHubs = Append(@, hub)]
    IN  [initialiseEventHub(pushed, hub, pushed.channels) EXCEPT !.ret = "this"]

(* ---------------------------------------------------------------------- *)
(* The state machine                                                       *)
(* ---------------------------------------------------------------------- *)

\* The running call's view of the program: the hub's channels, the handles
\* the callers hold, and the call's own outcome (callbacks invoked, publish
\* calls made, value returned, exception raised).
Cur ==
    [channels |-> channels, handles |-> handles, subscribed |-> subscribed,
     trace |-> << >>, calls |-> << >>, ret |-> Undefined, threw |-> FALSE]

\* `again` tells an unsubscribe call on a handle whose id was already absent.
NoCall ==
    [kind |-> "new", channel |-> "", data |-> Undefined, callback |-> "",
     replay |-> FALSE, id |-> 0, again |-> FALSE, trace |-> << >>,
     calls |-> << >>, ret |-> Undefined, threw |-> FALSE]

Finish(S, call) ==
    /\ channels' = S.channels
    /\ handles' = S.handles
    /\ subscribed' = S.subscribed
    /\ last' = [call EXCEPT !.trace = S.trace, !.calls = S.calls,
                            !.ret = S.ret, !.threw = S.threw]
    /\ UNCHANGED <<world, connector>>

RECURSIVE Sum(_, _)
Sum(f, S) ==
    IF S = {} THEN 0
    ELSE LET x == CHOOSE y \in S : TRUE IN f[x] + Sum(f, S \ {x})

\* new EventHub(), used by an application with the given names, callbacks
\* and values
NewHub(names, callbacks, data) ==
    /\ world = [names |-> names, callbacks |-> callbacks, data |-> data]
    /\ channels = EventHub
    /\ handles = {}
    /\ subscribed = (WildCardChannel :> 0)
    /\ npublish = 0
    /\ last = NoCall

StartWith(names, callbacks, data) ==
    /\ NewHub(names, callbacks, data)
    /\ connector = BaseConnector

Start(names, callbacks) == StartWith(names, callbacks, Data)

Init == Start(Names, {"rec"})

InitPublisher == Start(FewNames, {"rec", "publisher"})

InitThrower == Start(FewNames, {"rec", "thrower"})

InitUnsubscriber == Start(FewNames, {"rec", "unsubscriber"})

InitWildcardUnsubscriber == Start(FewNames, {"rec", "wildcardUnsubscriber"})

InitOddNames == Start(OddNames, {"rec"})

InitUndefinedData == StartWith(FewNames, {"rec"}, {Undefined, "x"})

InitSnapshot == Start({"a"}, {"rec", "unsubscriber", "subscriber"})

InitReplaySubscriber == Start({"a"}, {"rec", "replaySubscriber"})

\* A connector of a class that sets its channel list, and a hub.
InitConnector ==
    /\ NewHub(FewNames, {"rec"}, Data)
    /\ connector \in {[BaseConnector EXCEPT !.channels = chs] : chs \in ChannelLists}

HubSubscribe ==
    \E channel \in world.names, callback \in world.callbacks, replay \in BOOLEAN :
        /\ Sum(subscribed, DOMAIN subscribed) < MaxSubscribes
        /\ Finish(EventHub_subscribe(Cur, channel, callback, replay),
                  [NoCall EXCEPT !.kind = "subscribe", !.channel = channel,
                                 !.callback = callback, !.replay = replay])
        /\ UNCHANGED npublish

HubPublish ==
    \E channel \in world.names, data \in world.data :
        /\ npublish < MaxPublishes
        /\ Finish(EventHub_publish(Cur, channel, data),
                  [NoCall EXCEPT !.kind = "hubPublish", !.channel = channel,
                                 !.data = data])
        /\ npublish' = npublish + 1

\* hub.channels[channel].publish(data), on a channel taken from the
\* `channels` getter.
ChannelPublish ==
    \E channel \in DOMAIN channels, data \in world.data :
        /\ npublish < MaxPublishes
        /\ Finish(Channel_publish(Cur, channel, data),
                  [NoCall EXCEPT !.kind = "publish", !.channel = channel,
                                 !.data = data])
        /\ npublish' = npublish + 1

HubLastEvent ==
    \E channel \in world.names :
        /\ Finish(EventHub_lastEvent(Cur, channel),
                  [NoCall EXCEPT !.kind = "lastEvent", !.channel = channel])
        /\ UNCHANGED npublish

\* subscription.unsubscribe() on a handle a subscribe call returned.
CallUnsubscribe ==
    \E h \in handles :
        /\ Finish(Unsubscribe(Cur, h),
                  [NoCall EXCEPT !.kind = "unsubscribe", !.channel = h.chan,
                                 !.id = h.id,
                                 !.again = h.id \notin DOMAIN channels[h.chan].callbacks])
        /\ UNCHANGED npublish

Next ==
    \/ HubSubscribe
    \/ HubPublish
    \/ ChannelPublish
    \/ HubLastEvent
    \/ CallUnsubscribe

\* connector.addEventHub(hub)
AddEventHub ==
    \E hub \in Hubs :
        /\ Len(connector.asked) < MaxHubs
        /\ connector' = [addEventHub(connector, hub)
                            EXCEPT !.asked = Append(@, hub)]
        /\ UNCHANGED <<world, channels, handles, subscribed, npublish, last>>

\* The calls made on a connector; what initialiseEventHub does with the
\* hub is the subclass's.
NextConnector == AddEventHub

Spec == Init /\ [][Next]_vars

SpecPublisher == InitPublisher /\ [][Next]_vars

SpecThrower == InitThrower /\ [][Next]_vars

SpecUnsubscriber == InitUnsubscriber /\ [][Next]_vars

SpecWildcardUnsubscriber == InitWildcardUnsubscriber /\ [][Next]_vars

SpecOddNames == InitOddNames /\ [][Next]_vars

SpecUndefinedData == InitUndefinedData /\ [][Next]_vars

SpecSnapshot == InitSnapshot /\ [][Next]_vars

SpecReplaySubscriber == InitReplaySubscriber /\ [][Next]_vars

SpecConnector == InitConnector /\ [][NextConnector]_vars

(* ---------------------------------------------------------------------- *)
(* Reading the outcome of a call                                           *)
(* ---------------------------------------------------------------------- *)

IsPublish(l) == l.kind \in {"publish", "hubPublish"}

\* The invocations the k-th Channel.publish of the call made (0: replays).
CallTrace(l, k) == SelectSeq(l.trace, LAMBDA e : e.call = k)

Ids(entries) == [i \in DOMAIN entries |-> entries[i].id]

Range(q) == {q[i] : i \in DOMAIN q}

StrictlyAscending(q) == \A i \in 1..(Len(q) - 1) : q[i] < q[i + 1]

IsPrefix(p, q) == Len(p) <= Len(q) /\ \A i \in DOMAIN p : p[i] = q[i]

\* How many times the call invoked subscription id of channel c.
Invocations(l, c, id) ==
    Cardinality({i \in DOMAIN l.trace : l.trace[i].chan = c /\ l.trace[i].id = id})

\* The ids registered on channel c of the channel map chs.
Registered(chs, c) == IF c \in DOMAIN chs THEN DOMAIN chs[c].callbacks ELSE {}

\* The retained value of channel c of the channel map chs.
Retained(chs, c) == IF c \in DOMAIN chs THEN chs[c].lastEvent ELSE Undefined

(* ---------------------------------------------------------------------- *)
(* C1                                                                      *)
(* ---------------------------------------------------------------------- *)

\* C1: every EventHub.publish(name, v) with name other than "*" that returns
\* has, before it returns, invoked with v every callback that was subscribed
\* to "*" when the call began, and handed wildcard subscribers no value of
\* an earlier publish; deliveries being made inside the call, the values
\* arrive in the order of the publish calls.
C1_WildcardReceivesEveryPublish ==
    [][(/\ last'.kind = "hubPublish"
        /\ npublish' = npublish + 1
        /\ last'.channel # WildCardChannel
        /\ ~last'.threw)
       => /\ \A id \in Registered(channels, WildCardChannel) :
                \E i \in DOMAIN last'.trace :
                    /\ last'.trace[i].chan = WildCardChannel
                    /\ last'.trace[i].id = id
                    /\ last'.trace[i].data = last'.data
          /\ \A i \in DOMAIN last'.trace :
                last'.trace[i].chan = WildCardChannel
                    => last'.trace[i].data \in {last'.data, NestedData}]_vars

\* A second publish, on another channel than the first, reaches the wildcard
\* subscriber.
C1_Witness ==
    /\ last.kind = "hubPublish" /\ last.channel = "b" /\ last.data = ""
    /\ ~last.threw /\ npublish = 2
    /\ Retained(channels, "a") = "x"
    /\ \E i \in DOMAIN last.trace :
          last.trace[i].chan = WildCardChannel /\ last.trace[i].data = ""

(* ---------------------------------------------------------------------- *)
(* C2                                                                      *)
(* ---------------------------------------------------------------------- *)

\* C2: an EventHub.publish(name, v) with name other than "*" that returns
\* has invoked each callback subscribed to "*" exactly once: the wildcard
\* channel's publish was performed once for it.
C2_WildcardInvokedOnce ==
    (last.kind = "hubPublish" /\ last.channel # WildCardChannel /\ ~last.threw)
    => \A k \in DOMAIN last.calls :
          last.calls[k].chan = WildCardChannel
              => \A id \in Range(last.calls[k].ids) :
                    Invocations(last, WildCardChannel, id) = 1

(* ---------------------------------------------------------------------- *)
(* C3                                                                      *)
(* ---------------------------------------------------------------------- *)

\* C3: every Channel.publish invokes callbacks in strictly ascending order
\* of identifier; a publish call made on the hub, whatever subscribes and
\* unsubscribes preceded it, invokes only callbacks registered when it began
\* and, when it returns, has invoked exactly the registered ones.
C3_AscendingIdOrder ==
    [][(IsPublish(last') /\ npublish' = npublish + 1)
       => /\ \A k \in DOMAIN last'.calls :
                LET got == Ids(CallTrace(last', k))
                IN  /\ StrictlyAscending(got)
                    /\ IsPrefix(got, last'.calls[k].ids)
                    /\ last'.calls[k].returned => got = last'.calls[k].ids
          /\ LET got == Ids(CallTrace(last', 1))
                 reg == Registered(channels, last'.channel)
             IN  /\ Range(got) \subseteq reg
                 /\ last'.calls[1].returned => Range(got) = reg]_vars

\* Subscribers 1, 2 and 3, then 2 unsubscribed: a publish invokes 1 then 3.
C3_Witness ==
    /\ IsPublish(last) /\ last.calls[1].returned
    /\ channels[last.channel].lastId = 3
    /\ DOMAIN channels[last.channel].callbacks = {1, 3}
    /\ Ids(CallTrace(last, 1)) = <<1, 3>>

(* ---------------------------------------------------------------------- *)
(* C4                                                                      *)
(* ---------------------------------------------------------------------- *)

\* C4: a Channel.publish(value) whose callbacks all just record invokes each
\* callback registered on the channel exactly once, with the envelope
\* {channel: the channel's own name, data: value}, and invokes no callback
\* of another channel.
C4_QuietPublishDelivers ==
    /\ \A k \in DOMAIN last.calls :
          last.calls[k].quiet
              => /\ last.calls[k].returned
                 /\ Ids(CallTrace(last, k)) = last.calls[k].ids
                 /\ \A i \in DOMAIN last.trace :
                       last.trace[i].call = k
                           => /\ last.trace[i].chan = last.calls[k].chan
                              /\ last.trace[i].channel
                                     = channels[last.calls[k].chan].name
                              /\ last.trace[i].channel = last.calls[k].chan
                              /\ last.trace[i].data = last.calls[k].data
    /\ (last.kind = "publish" /\ last.calls[1].quiet)
          => /\ Len(last.calls) = 1
             /\ \A i \in DOMAIN last.trace :
                   last.trace[i].chan = last.channel /\ last.trace[i].call = 1
             /\ \A id \in DOMAIN channels[last.channel].callbacks :
                   Invocations(last, last.channel, id) = 1

\* A quiet publish on channel "a" with two subscribers, while the wildcard
\* channel has a subscriber of its own.
C4_Witness ==
    /\ last.kind = "publish" /\ last.channel = "a" /\ last.calls[1].quiet
    /\ Len(last.trace) = 2
    /\ Registered(channels, WildCardChannel) # {}

(* ---------------------------------------------------------------------- *)
(* C5                                                                      *)
(* ---------------------------------------------------------------------- *)

\* C5: subscribe(cb, replay = true) on a channel that has been published to
\* invokes cb exactly once before it returns, with the envelope {channel:
\* the channel's name, data: the value published last}, whatever that value
\* is (the empty string included). Every published value being defined, a
\* channel has been published to exactly when it retains a defined value.
C5_ReplayAnyValue ==
    [][(/\ last'.kind = "subscribe"
        /\ last'.replay
        /\ Retained(channels, last'.channel) # Undefined)
       => /\ Len(last'.trace) = 1
          /\ last'.trace[1].call = 0
          /\ last'.trace[1].chan = last'.channel
          /\ last'.trace[1].id = last'.ret
          /\ last'.trace[1].cb = last'.callback
          /\ last'.trace[1].channel = last'.channel
          /\ last'.trace[1].data = Retained(channels, last'.channel)]_vars

(* ---------------------------------------------------------------------- *)
(* C6                                                                      *)
(* ---------------------------------------------------------------------- *)

\* C6: a subscribe call with replay false, or with replay true on a channel
\* never published to, invokes no callback, returns, and leaves the
\* callback registered under the returned id; a publish call that returns
\* has invoked every callback that was registered on its channel.
C6_NoReplayWithoutFlagOrValue ==
    [][/\ (/\ last'.kind = "subscribe"
           /\ ~last'.replay \/ Retained(channels, last'.channel) = Undefined)
          => /\ last'.trace = << >>
             /\ ~last'.threw
             /\ last'.ret \in Registered(channels', last'.channel)
             /\ last'.ret \notin Registered(channels, last'.channel)
             /\ channels'[last'.channel].callbacks[last'.ret] = last'.callback
       /\ (IsPublish(last') /\ npublish' = npublish + 1 /\ ~last'.threw)
          => \A id \in Registered(channels, last'.channel) :
                \E i \in DOMAIN last'.trace :
                    /\ last'.trace[i].chan = last'.channel
                    /\ last'.trace[i].id = id
                    /\ last'.trace[i].call = 1
                    /\ last'.trace[i].data = last'.data]_vars

\* A subscribe call with replay on a channel never published to returned
\* without invoking the callback, which is registered.
C6_Witness ==
    /\ last.kind = "subscribe" /\ last.replay /\ ~last.threw
    /\ last.trace = << >>
    /\ channels[last.channel].lastEvent = Undefined
    /\ last.ret \in DOMAIN channels[last.channel].callbacks

(* ---------------------------------------------------------------------- *)
(* C7                                                                      *)
(* ---------------------------------------------------------------------- *)

\* C7: after a publish(v) call on a channel returns, made directly or
\* through EventHub.publish(name, v), the channel retains v.
C7_LastWriteWins ==
    (IsPublish(last) /\ ~last.threw)
    => channels[last.channel].lastEvent = last.data

\* The publish calls the last call made on channel c, in the order they began.
CallsOn(l, c) == SelectSeq(l.calls, LAMBDA k : k.chan = c)

\* C7 (amended): after a publish(v) call on a channel returns, the channel
\* retains the value of the publish on that channel that began last: v
\* itself unless a callback published to that channel during the call;
\* whether or not the channel has subscribers. EventHub.lastEvent on an
\* existing channel returns the retained value and changes nothing.
C7_LastStartedWriteWins ==
    [][/\ (IsPublish(last') /\ npublish' = npublish + 1 /\ ~last'.threw)
          => LET on == CallsOn(last', last'.channel)
             IN  /\ on[1].data = last'.data
                 /\ channels'[last'.channel].lastEvent = on[Len(on)].data
                 /\ (\A k \in DOMAIN on : on[k].data = last'.data)
                       => channels'[last'.channel].lastEvent = last'.data
       /\ (last'.kind = "lastEvent" /\ last'.channel \in DOMAIN channels)
          => /\ last'.ret = channels[last'.channel].lastEvent
             /\ channels' = channels
             /\ handles' = handles]_vars

\* A second publish on a channel without subscribers replaced the value the
\* first one left.
C7_Witness ==
    /\ IsPublish(last) /\ npublish = 2 /\ ~last.threw
    /\ last.channel = "a" /\ last.data = ""
    /\ Registered(channels, "a") = {}
    /\ channels["a"].lastEvent = ""
    /\ channels[WildCardChannel].lastEvent = "x"

(* ---------------------------------------------------------------------- *)
(* C8                                                                      *)
(* ---------------------------------------------------------------------- *)

\* C8: on every channel the Nth Channel.subscribe call takes identifier N:
\* the id counter equals the number of subscribe calls made on the channel,
\* a subscribe call that returns returns one more than the number made
\* before it, the
\* counter never decreases, and an identifier that appears in the mapping
\* is greater than every identifier assigned before (none is reused).
C8_NthSubscribeGetsN ==
    [][/\ \A c \in DOMAIN channels' : channels'[c].lastId = subscribed'[c]
       /\ \A c \in DOMAIN channels :
             /\ channels'[c].lastId >= channels[c].lastId
             /\ \A id \in Registered(channels', c) \ Registered(channels, c) :
                   id > channels[c].lastId
       /\ (last'.kind = "subscribe" /\ ~last'.threw)
             => last'.ret = (IF last'.channel \in DOMAIN subscribed
                             THEN subscribed[last'.channel] ELSE 0) + 1]_vars

\* After subscriber 1 was unsubscribed, the second subscribe call on the
\* channel returned 2.
C8_Witness ==
    /\ last.kind = "subscribe" /\ last.ret = 2
    /\ DOMAIN channels[last.channel].callbacks = {2}

(* ---------------------------------------------------------------------- *)
(* C9                                                                      *)
(* ---------------------------------------------------------------------- *)

\* C9: unsubscribe on a handle whose id is registered removes that id from
\* its channel's mapping and nothing else: every other subscriber of that
\* channel and every other channel is as before. An id once removed is
\* never registered again, and a publish call that starts afterwards invokes
\* no id that was absent from the mapping when it started.
C9_UnsubscribeRemovesExactlyOne ==
    [][/\ (last'.kind = "unsubscribe" /\ ~last'.again)
          => LET c == last'.channel
             IN  /\ last'.id \in Registered(channels, c)
                 /\ Registered(channels', c) = Registered(channels, c) \ {last'.id}
                 /\ Cardinality(Registered(channels', c))
                       = Cardinality(Registered(channels, c)) - 1
                 /\ \A id \in Registered(channels', c) :
                       channels'[c].callbacks[id] = channels[c].callbacks[id]
                 /\ DOMAIN channels' = DOMAIN channels
                 /\ \A d \in DOMAIN channels \ {c} : channels'[d] = channels[d]
       /\ \A c \in DOMAIN channels :
             \A id \in 1..channels[c].lastId :
                 id \notin Registered(channels, c)
                     => id \notin Registered(channels', c)
       /\ (IsPublish(last') /\ npublish' = npublish + 1)
          => \A i \in DOMAIN last'.trace :
                LET e == last'.trace[i]
                IN  \/ e.id \in Registered(channels, e.chan)
                    \/ e.chan \notin DOMAIN channels
                    \/ e.id > channels[e.chan].lastId]_vars

\* One of two subscribers of a channel was unsubscribed; the publish that
\* followed invoked only the other.
C9_Witness ==
    /\ IsPublish(last) /\ ~last.threw
    /\ channels[last.channel].lastId = 2
    /\ DOMAIN channels[last.channel].callbacks = {2}
    /\ Ids(CallTrace(last, 1)) = <<2>>
    /\ \E d \in DOMAIN channels : d # last.channel /\ Registered(channels, d) # {}

(* ---------------------------------------------------------------------- *)
(* C10                                                                     *)
(* ---------------------------------------------------------------------- *)

\* C10: unsubscribe on a handle whose id is already absent raises nothing
\* and changes nothing: every channel's subscriber mapping, retained value
\* and id counter, the channel map and the handles are as before, also when
\* other callbacks were subscribed since the first call. No unsubscribe
\* call raises.
C10_UnsubscribeIdempotent ==
    [][/\ (last'.kind = "unsubscribe" /\ last'.again)
          => /\ ~last'.threw
             /\ channels' = channels
             /\ handles' = handles
             /\ subscribed' = subscribed
       /\ last'.kind = "unsubscribe" => ~last'.threw]_vars

\* The second unsubscribe of handle 1, after a second callback was
\* subscribed to the channel, which is still registered.
C10_Witness ==
    /\ last.kind = "unsubscribe" /\ last.again /\ last.id = 1
    /\ DOMAIN channels[last.channel].callbacks = {2}

(* ---------------------------------------------------------------------- *)
(* C11                                                                     *)
(* ---------------------------------------------------------------------- *)

\* The calls of the hub that look a channel up by name.
IsLookup(l) == l.kind \in {"subscribe", "hubPublish", "lastEvent"}

\* C11: EventHub.subscribe, publish and lastEvent each add exactly one
\* channel entry when the name has no channel yet and none when it has one:
\* the number of channels grows by one per new name, never by more.
C11_OneEntryPerNewName ==
    [][IsLookup(last')
       => Cardinality(DOMAIN channels')
            = Cardinality(DOMAIN channels)
                + (IF last'.channel \in DOMAIN channels THEN 0 ELSE 1)]_vars

(* ---------------------------------------------------------------------- *)
(* C12                                                                     *)
(* ---------------------------------------------------------------------- *)

\* C12: a newly constructed hub has exactly one channel, the wildcard
\* channel under the name "*"; the "*" entry exists in every reachable
\* state; a subscribe to "*" registers the callback on that channel, under
\* a new id, and leaves the set of channels as it was.
C12_WildcardAlwaysExists ==
    /\ [](/\ WildCardChannel \in DOMAIN channels
          /\ channels[WildCardChannel].name = WildCardChannel
          /\ last.kind = "new" => DOMAIN channels = {WildCardChannel})
    /\ [][(last'.kind = "subscribe" /\ last'.channel = WildCardChannel)
          => LET id == channels'[WildCardChannel].lastId
             IN  /\ DOMAIN channels' = DOMAIN channels
                 /\ id \notin Registered(channels, WildCardChannel)
                 /\ id \in Registered(channels', WildCardChannel)
                 /\ channels'[WildCardChannel].callbacks[id] = last'.callback
                 /\ ~last'.threw => last'.ret = id]_vars

\* A subscribe to "*" on a hub that has two more channels.
C12_Witness ==
    /\ last.kind = "subscribe" /\ last.channel = WildCardChannel
    /\ DOMAIN channels = Names
    /\ last.ret \in Registered(channels, WildCardChannel)

(* ---------------------------------------------------------------------- *)
(* C13                                                                     *)
(* ---------------------------------------------------------------------- *)

\* C13: a channel name present in the hub stays present under every
\* subscribe, publish, lastEvent and unsubscribe, and keeps its Channel: the
\* name is the same, the id counter never decreases, a retained value is
\* replaced only by a publish and never lost, and a registered callback
\* stays registered under its id until its own unsubscribe is called.
\* Unsubscribing the last subscriber leaves the channel in place.
C13_ChannelsPersist ==
    [][\A c \in DOMAIN channels :
          /\ c \in DOMAIN channels'
          /\ channels'[c].name = channels[c].name
          /\ channels'[c].lastId >= channels[c].lastId
          /\ channels[c].lastEvent # Undefined
                => channels'[c].lastEvent # Undefined
          /\ ~IsPublish(last') => channels'[c].lastEvent = channels[c].lastEvent
          /\ \A id \in DOMAIN channels[c].callbacks :
                \/ /\ last'.kind = "unsubscribe"
                   /\ last'.channel = c
                   /\ last'.id = id
                \/ /\ id \in DOMAIN channels'[c].callbacks
                   /\ channels'[c].callbacks[id] = channels[c].callbacks[id]]_vars

\* The only subscriber of channel "a" has unsubscribed: the channel is
\* there, with its retained value and its id counter.
C13_Witness ==
    /\ last.kind = "unsubscribe" /\ last.channel = "a" /\ ~last.again
    /\ "a" \in DOMAIN channels
    /\ Registered(channels, "a") = {}
    /\ channels["a"].lastId = 1
    /\ channels["a"].lastEvent = "x"

(* ---------------------------------------------------------------------- *)
(* C14                                                                     *)
(* ---------------------------------------------------------------------- *)

\* C14: a channel starts with lastEvent undefined, no subscriber and the
\* name it was created with. The constructor's wildcard channel is such a
\* channel; a channel that a call of the hub created is the one the call
\* named, and the call found it so: lastEvent returns undefined and leaves
\* it as created, subscribe registers the first id and replays nothing,
\* publish invokes no callback of it.
C14_FreshChannel ==
    /\ [](last.kind = "new"
            => /\ DOMAIN channels = {WildCardChannel}
               /\ channels[WildCardChannel].name = WildCardChannel
               /\ channels[WildCardChannel].lastEvent = Undefined
               /\ channels[WildCardChannel].lastId = 0
               /\ DOMAIN channels[WildCardChannel].callbacks = {})
    /\ [][\A c \in (DOMAIN channels') \ (DOMAIN channels) :
            /\ c = last'.channel
            /\ channels'[c].name = c
            /\ last'.kind \in {"lastEvent", "subscribe"}
                  => channels'[c].lastEvent = Undefined
            /\ last'.kind \in {"lastEvent", "hubPublish"}
                  => /\ DOMAIN channels'[c].callbacks = {}
                     /\ channels'[c].lastId = 0
            /\ last'.kind = "lastEvent" => last'.ret = Undefined
            /\ last'.kind = "subscribe"
                  => /\ last'.ret = 1
                     /\ DOMAIN channels'[c].callbacks = {1}
                     /\ last'.trace = << >>
            /\ last'.kind = "hubPublish"
                  => /\ channels'[c].lastEvent = last'.data
                     /\ \A i \in DOMAIN last'.trace :
                           last'.trace[i].chan # c]_vars

\* lastEvent on a name that had no channel, after values were published on
\* other channels: the channel is there, as created, and nothing returned.
C14_Witness ==
    /\ last.kind = "lastEvent" /\ last.channel = "b"
    /\ last.ret = Undefined
    /\ channels["b"].lastId = 0
    /\ Retained(channels, "a") = "x"
    /\ Retained(channels, WildCardChannel) = "x"

(* ---------------------------------------------------------------------- *)
(* C15                                                                     *)
(* ---------------------------------------------------------------------- *)

\* C15: EventHub.subscribe and EventHub.lastEvent never fail, whatever the
\* channel name: the empty string, "*", and names every object inherits,
\* such as "constructor" and "toString", are accepted and have a channel
\* once the call returns.
C15_LookupNeverFails ==
    last.kind \in {"subscribe", "lastEvent"}
    => /\ ~last.threw
       /\ last.channel \in DOMAIN channels

(* ---------------------------------------------------------------------- *)
(* C16                                                                     *)
(* ---------------------------------------------------------------------- *)

\* C16: the envelope an EventHub.publish(name, v) hands to a wildcard
\* subscriber names the channel the event was published to.
C16_EnvelopeNamesOrigin ==
    last.kind = "hubPublish"
    => \A i \in DOMAIN last.trace :
          last.trace[i].chan = WildCardChannel
              => last.trace[i].channel = last.channel

(* ---------------------------------------------------------------------- *)
(* C17                                                                     *)
(* ---------------------------------------------------------------------- *)

\* C17: the envelope an EventHub.publish(name, v) hands to a wildcard
\* subscriber has channel "*" and data v, for every name; an envelope with
\* another value comes from a publish that a callback made during the call.
C17_WildcardEnvelope ==
    last.kind = "hubPublish"
    => \A i \in DOMAIN last.trace :
          last.trace[i].chan = WildCardChannel
              => /\ last.trace[i].channel = WildCardChannel
                 /\ last.trace[i].data = last.calls[last.trace[i].call].data
                 /\ \/ last.trace[i].data = last.data
                    \/ \E j \in 1..(i - 1) : Interfering(last.trace[j].cb)

\* A publish on "a" reached a wildcard subscriber.
C17_Witness ==
    /\ last.kind = "hubPublish" /\ last.channel = "a" /\ last.data = "x"
    /\ \E i \in DOMAIN last.trace :
          /\ last.trace[i].chan = WildCardChannel
          /\ last.trace[i].channel = WildCardChannel
          /\ last.trace[i].data = "x"

(* ---------------------------------------------------------------------- *)
(* C18                                                                     *)
(* ---------------------------------------------------------------------- *)

\* The call handed the value it was given to subscription id of channel c.
Delivered(l, c, id) ==
    \E i \in DOMAIN l.trace :
        /\ l.trace[i].chan = c
        /\ l.trace[i].id = id
        /\ l.trace[i].data = l.data

\* C18: when EventHub.publish(name, v) returns normally, every callback
\* that was registered on the named channel and on the wildcard channel
\* when the call began has been invoked with v.
C18_AllRegisteredInvoked ==
    [][(last'.kind = "hubPublish" /\ npublish' = npublish + 1 /\ ~last'.threw)
       => /\ \A id \in Registered(channels, last'.channel) :
                Delivered(last', last'.channel, id)
          /\ \A id \in Registered(channels, WildCardChannel) :
                Delivered(last', WildCardChannel, id)]_vars

\* C18 (amended): when EventHub.publish(name, v) returns normally, every
\* Channel.publish it made has returned, every callback registered on the
\* named channel when the call began has been invoked with v, and so has
\* every callback registered on the wildcard channel when the call began,
\* except those a callback of the named channel unsubscribed during the
\* call, which are registered no more.
C18_SynchronousFanOut ==
    [][(last'.kind = "hubPublish" /\ npublish' = npublish + 1 /\ ~last'.threw)
       => /\ \A k \in DOMAIN last'.calls : last'.calls[k].returned
          /\ \A id \in Registered(channels, last'.channel) :
                Delivered(last', last'.channel, id)
          /\ \A id \in Registered(channels, WildCardChannel) :
                \/ Delivered(last', WildCardChannel, id)
                \/ /\ last'.channel # WildCardChannel
                   /\ id \notin Registered(channels', WildCardChannel)
                   /\ \E i \in DOMAIN last'.trace :
                         /\ last'.trace[i].call = 1
                         /\ Interfering(last'.trace[i].cb)]_vars

\* A publish on "a" whose callback unsubscribed the wildcard subscriber,
\* after which the wildcard channel had nobody to invoke; the other
\* callback of "a" was invoked.
C18_Witness ==
    /\ last.kind = "hubPublish" /\ last.channel = "a" /\ ~last.threw
    /\ \E i, j \in DOMAIN last.trace :
          /\ last.trace[i].chan = "a" /\ last.trace[i].cb = "wildcardUnsubscriber"
          /\ last.trace[j].chan = "a" /\ last.trace[j].cb = "rec"
    /\ \E h \in handles :
          h.chan = WildCardChannel /\ h.id \notin Registered(channels, WildCardChannel)
    /\ \A i \in DOMAIN last.trace : last.trace[i].chan = "a"

(* ---------------------------------------------------------------------- *)
(* C19                                                                     *)
(* ---------------------------------------------------------------------- *)

\* C19: EventHub.publish(name, v) touches the channel `name` and the
\* wildcard channel only: every other channel was there before, keeps its
\* retained value, its subscribers and its id counter, and none of its
\* callbacks is invoked.
C19_PublishFrame ==
    [][(last'.kind = "hubPublish" /\ npublish' = npublish + 1)
       => \A c \in (DOMAIN channels') \ {last'.channel, WildCardChannel} :
             /\ c \in DOMAIN channels
             /\ channels'[c] = channels[c]
             /\ \A i \in DOMAIN last'.trace : last'.trace[i].chan # c]_vars

\* A publish on "a" while channel "b" has a subscriber and a retained value.
C19_Witness ==
    /\ last.kind = "hubPublish" /\ last.channel = "a" /\ last.data = ""
    /\ Registered(channels, "b") # {}
    /\ Retained(channels, "b") = "x"
    /\ Registered(channels, "a") # {}
    /\ last.trace # << >>

(* ---------------------------------------------------------------------- *)
(* C20                                                                     *)
(* ---------------------------------------------------------------------- *)

\* C20: EventHub.publish("*", v) invokes each callback subscribed to "*"
\* exactly twice with v, once for the channel named and once for the
\* forwarding, and no callback of another channel.
C20_WildcardPublishTwice ==
    (last.kind = "hubPublish" /\ last.channel = WildCardChannel /\ ~last.threw)
    => /\ \A id \in Range(last.calls[1].ids) :
             Invocations(last, WildCardChannel, id) = 2
       /\ \A i \in DOMAIN last.trace :
             /\ last.trace[i].chan = WildCardChannel
             /\ last.trace[i].data = last.data

(* ---------------------------------------------------------------------- *)
(* C21                                                                     *)
(* ---------------------------------------------------------------------- *)

\* C21: within one EventHub.publish(name, v) with name other than "*",
\* every callback of the named channel is invoked before any callback of
\* the wildcard channel, and the named channel retains v before the
\* wildcard channel does: the first Channel.publish of the call is the
\* named channel's, the later ones the wildcard's, and a call that ended
\* in the first one has left v in the named channel and the wildcard
\* channel's retained value as it was.
C21_NamedBeforeWildcard ==
    [][(/\ last'.kind = "hubPublish"
        /\ npublish' = npublish + 1
        /\ last'.channel # WildCardChannel)
       => /\ \A i, j \in DOMAIN last'.trace :
                (/\ last'.trace[i].chan = last'.channel
                 /\ last'.trace[j].chan = WildCardChannel) => i < j
          /\ Len(last'.calls) >= 1
          /\ last'.calls[1].chan = last'.channel
          /\ \A k \in 2..Len(last'.calls) : last'.calls[k].chan = WildCardChannel
          /\ channels'[last'.channel].lastEvent = last'.data
          /\ Len(last'.calls) = 1
                => channels'[WildCardChannel].lastEvent
                     = channels[WildCardChannel].lastEvent]_vars

\* A publish on "a" that invoked a callback of "a" and then, twice, a
\* callback of "*".
C21_Witness ==
    /\ last.kind = "hubPublish" /\ last.channel = "a" /\ ~last.threw
    /\ Len(last.trace) = 3
    /\ last.trace[1].chan = "a"
    /\ last.trace[2].chan = WildCardChannel
    /\ Retained(channels, "a") = last.data
    /\ Retained(channels, WildCardChannel) = last.data

(* ---------------------------------------------------------------------- *)
(* C22                                                                     *)
(* ---------------------------------------------------------------------- *)

\* C22: in every reachable state the keys of a channel's subscriber
\* mapping are positive integers, each strictly less than the channel's id
\* counter.
C22_KeysBelowCounter ==
    \A c \in DOMAIN channels :
        \A id \in DOMAIN channels[c].callbacks :
            id \in Nat /\ id >= 1 /\ id < channels[c].lastId

\* C22 (amended): in every reachable state the keys of a channel's
\* subscriber mapping are positive integers, each at most the channel's id
\* counter, which is the key given last.
C22_KeysWithinCounter ==
    \A c \in DOMAIN channels :
        /\ channels[c].lastId \in Nat
        /\ \A id \in DOMAIN channels[c].callbacks :
              id \in Nat /\ id >= 1 /\ id <= channels[c].lastId

\* Three subscriptions to "a", the second unsubscribed: keys 1 and 3, the
\* counter at 3.
C22_Witness ==
    /\ "a" \in DOMAIN channels
    /\ DOMAIN channels["a"].callbacks = {1, 3}
    /\ channels["a"].lastId = 3

(* ---------------------------------------------------------------------- *)
(* C23                                                                     *)
(* ---------------------------------------------------------------------- *)

\* C23: a channel's lastEvent is set exactly when a publish has occurred on
\* the channel since its creation, whatever the value published: a call
\* that published on the channel leaves lastEvent set, and a call that did
\* not leaves it as it was, unset on a channel the call created.
C23_SetIffPublished ==
    [][\A c \in DOMAIN channels' :
          IF \E k \in DOMAIN last'.calls : last'.calls[k].chan = c
          THEN channels'[c].lastEvent # Undefined
          ELSE channels'[c].lastEvent = Retained(channels, c)]_vars

(* ---------------------------------------------------------------------- *)
(* C24                                                                     *)
(* ---------------------------------------------------------------------- *)

\* C24: a replay made by subscribe is no publish: the call makes no
\* Channel.publish, invokes at most the callback it registers, under the
\* id it gives it, and no callback registered before on that channel or on
\* the wildcard channel; every channel's retained value is as before.
C24_ReplayIsNoPublish ==
    [][last'.kind = "subscribe"
       => /\ last'.calls = << >>
          /\ Len(last'.trace) <= 1
          /\ \A i \in DOMAIN last'.trace :
                /\ last'.trace[i].call = 0
                /\ last'.trace[i].chan = last'.channel
                /\ last'.trace[i].cb = last'.callback
                /\ last'.trace[i].id = channels'[last'.channel].lastId
                /\ last'.trace[i].id \notin Registered(channels, last'.channel)
          /\ \A c \in DOMAIN channels' :
                channels'[c].lastEvent = Retained(channels, c)]_vars

\* A subscribe with replay to "a", which retains "x", while "a" and "*"
\* have a subscriber each: one invocation, of the new callback.
C24_Witness ==
    /\ last.kind = "subscribe" /\ last.channel = "a" /\ last.replay
    /\ ~last.threw /\ last.ret = 2
    /\ Registered(channels, "a") = {1, 2}
    /\ Registered(channels, WildCardChannel) # {}
    /\ Len(last.trace) = 1 /\ last.trace[1].id = 2 /\ last.trace[1].data = "x"

(* ---------------------------------------------------------------------- *)
(* C25                                                                     *)
(* ---------------------------------------------------------------------- *)

\* The call invoked a callback of the given kind on channel c.
Ran(l, c, kind) ==
    \E i \in DOMAIN l.trace : l.trace[i].chan = c /\ l.trace[i].cb = kind

\* C25: a publish during whose fan-out a callback calls unsubscribe, on
\* its own handle and on the other subscribers', does not fail: every
\* Channel.publish of the call returns, having invoked the callbacks it
\* set out to invoke, and the unsubscribed callbacks are registered no more.
C25_UnsubscribeInFanOut ==
    [][(IsPublish(last') /\ npublish' = npublish + 1)
       => \A c \in DOMAIN channels' :
             Ran(last', c, "unsubscriber")
             => /\ ~last'.threw
                /\ \A k \in DOMAIN last'.calls :
                      /\ last'.calls[k].returned
                      /\ Ids(CallTrace(last', k)) = last'.calls[k].ids
                /\ \A h \in handles' :
                      h.chan = c => h.id \notin Registered(channels', c)]_vars

\* A publish on "a": callback 1 unsubscribed itself and callback 2, both
\* were invoked, none is registered afterwards.
C25_Witness ==
    /\ last.kind = "publish" /\ last.channel = "a" /\ ~last.threw
    /\ Ids(last.trace) = <<1, 2>>
    /\ last.trace[1].cb = "unsubscriber" /\ last.trace[2].cb = "rec"
    /\ Registered(channels, "a") = {}
    /\ last.calls[1].returned

(* ---------------------------------------------------------------------- *)
(* C26                                                                     *)
(* ---------------------------------------------------------------------- *)

\* C26: Channel.publish delivers to a snapshot: it invokes exactly the
\* callbacks registered when its fan-out began, once each, those that an
\* earlier callback of the fan-out unsubscribed included; a callback
\* subscribed without replay during the fan-out is not invoked by it, and
\* is registered when the next publish begins.
C26_PublishSnapshot ==
    [][(IsPublish(last') /\ npublish' = npublish + 1)
       => LET got == Ids(CallTrace(last', 1))
              before == Registered(channels, last'.channel)
              after == Registered(channels', last'.channel)
          IN  /\ got = Ascending(before)
              /\ \A id \in after \ before : Invocations(last', last'.channel, id) = 0
              /\ Ran(last', last'.channel, "subscriber") => after \ before # {}
              /\ Ran(last', last'.channel, "unsubscriber")
                    => \A h \in handles' :
                          h.chan = last'.channel => h.id \notin after]_vars

\* A publish on "a": callback 1 unsubscribed 1 and 2, callback 2 was
\* invoked all the same and subscribed callback 3, which was not invoked.
C26_Witness ==
    /\ last.kind = "publish" /\ last.channel = "a"
    /\ Ids(last.trace) = <<1, 2>>
    /\ last.trace[1].cb = "unsubscriber" /\ last.trace[2].cb = "subscriber"
    /\ Registered(channels, "a") = {3}

(* ---------------------------------------------------------------------- *)
(* C27                                                                     *)
(* ---------------------------------------------------------------------- *)

\* C27: a callback subscribed with replay to the channel by a callback
\* that runs in the fan-out of Channel.publish(v) receives v exactly once
\* for that publish, through the replay.
C27_ReplayInFanOutOnce ==
    [][(last'.kind = "publish" /\ npublish' = npublish + 1)
       => \A id \in Registered(channels', last'.channel)
                       \ Registered(channels, last'.channel) :
             /\ Invocations(last', last'.channel, id) = 1
             /\ \E i \in DOMAIN last'.trace :
                   /\ last'.trace[i].id = id
                   /\ last'.trace[i].call = 0
                   /\ last'.trace[i].data = last'.data]_vars

(* ---------------------------------------------------------------------- *)
(* C28                                                                     *)
(* ---------------------------------------------------------------------- *)

\* The invocations of the outer fan-out of a Channel.publish call whose
\* callback published in its turn.
Reentrant(l) == {p \in DOMAIN l.trace : l.trace[p].call = 1 /\ l.trace[p].cb = "publisher"}

\* After invocation p of the outer fan-out, the value the callback
\* published reached every subscriber in reg before the outer fan-out went
\* on: every later invocation of the outer fan-out comes after them.
NestedFirst(l, reg, p) ==
    \A id \in reg :
        \E m \in DOMAIN l.trace :
            /\ m > p
            /\ l.trace[m].id = id
            /\ l.trace[m].call # 1
            /\ l.trace[m].data = NestedData
            /\ \A q \in DOMAIN l.trace :
                  (q > p /\ l.trace[q].call = 1) => m < q

\* C28: when callback i, invoked by publish(v1) on a channel, publishes v2
\* on that channel, v2 reaches all subscribers before the outer fan-out
\* resumes, so that subscribers after i get v2 before v1; when the outer
\* publish returns lastEvent is v2, and the value delivered last was v1.
C28_ReentrantPublish ==
    [][(/\ last'.kind = "publish"
        /\ npublish' = npublish + 1
        /\ Reentrant(last') # {})
       => /\ \A p \in Reentrant(last') :
                NestedFirst(last', Registered(channels, last'.channel), p)
          /\ channels'[last'.channel].lastEvent = NestedData
          /\ last'.trace[Len(last'.trace)].data = last'.data]_vars

\* C28 (amended): as above, but the value delivered last was v1 only when
\* the subscriber with the highest identifier is not one that publishes in
\* its turn; when it is, as when i is the highest identifier, the value
\* delivered last was v2.
C28_ReentrantPublishLastValue ==
    [][(/\ last'.kind = "publish"
        /\ npublish' = npublish + 1
        /\ Reentrant(last') # {})
       => LET n == Len(last'.trace)
              reg == Registered(channels, last'.channel)
              highest == CHOOSE id \in reg : \A other \in reg : other <= id
          IN  /\ \A p \in Reentrant(last') : NestedFirst(last', reg, p)
              /\ \A p \in Reentrant(last'), q \in DOMAIN last'.trace :
                    (last'.trace[q].call = 1 /\ last'.trace[q].id > last'.trace[p].id)
                    => \E m \in p..q :
                          /\ last'.trace[m].id = last'.trace[q].id
                          /\ last'.trace[m].data = NestedData
              /\ channels'[last'.channel].lastEvent = NestedData
              /\ last'.trace[n].data
                    = IF channels[last'.channel].callbacks[highest] = "publisher"
                      THEN NestedData
                      ELSE last'.data]_vars

\* publish("x") on "a" with callbacks 1 (publishes in its turn) and 2:
\* 1 gets "x", 1 and 2 get the nested value, then 2 gets "x".
C28_Witness ==
    /\ last.kind = "publish" /\ last.channel = "a" /\ last.data = "x"
    /\ Len(last.trace) = 4
    /\ Ids(last.trace) = <<1, 1, 2, 2>>
    /\ last.trace[1].cb = "publisher" /\ last.trace[3].cb = "rec"
    /\ last.trace[3].data = NestedData /\ last.trace[4].data = "x"
    /\ channels["a"].lastEvent = NestedData

(* ---------------------------------------------------------------------- *)
(* C29                                                                     *)
(* ---------------------------------------------------------------------- *)

\* C29: when a callback throws during Channel.publish(v), the exception
\* reaches the caller of publish; the callbacks with lower ids have been
\* invoked with v, those with higher ids are not invoked; lastEvent is v
\* and the subscriber mapping is as before the call.
C29_ThrowInFanOut ==
    [][(/\ last'.kind = "publish"
        /\ npublish' = npublish + 1
        /\ Ran(last', last'.channel, "thrower"))
       => LET n == Len(last'.trace)
              ids == Ascending(Registered(channels, last'.channel))
          IN  /\ last'.threw
              /\ ~last'.calls[1].returned
              /\ last'.trace[n].cb = "thrower"
              /\ \A i \in 1..(n - 1) : last'.trace[i].cb # "thrower"
              /\ \A i \in 1..n : last'.trace[i].data = last'.data
              /\ Ids(last'.trace) = SubSeq(ids, 1, n)
              /\ channels'[last'.channel].lastEvent = last'.data
              /\ channels'[last'.channel].callbacks
                    = channels[last'.channel].callbacks]_vars

\* publish("") on "a", which retained "x", with callbacks 1, 2 (throws)
\* and 3: 1 and 2 were invoked, 3 was not, and "a" retains "".
C29_Witness ==
    /\ last.kind = "publish" /\ last.channel = "a" /\ last.data = ""
    /\ last.threw
    /\ Ids(last.trace) = <<1, 2>>
    /\ last.trace[2].cb = "thrower"
    /\ Registered(channels, "a") = {1, 2, 3}
    /\ channels["a"].lastEvent = ""

(* ---------------------------------------------------------------------- *)
(* C30                                                                     *)
(* ---------------------------------------------------------------------- *)

\* C30: when a callback of the named channel throws during
\* EventHub.publish(name, v), name other than "*", the wildcard channel is
\* not published to: no callback of it is invoked, it is as it was before
\* the call, and the named channel retains v.
C30_ThrowSkipsWildcard ==
    [][(/\ last'.kind = "hubPublish"
        /\ npublish' = npublish + 1
        /\ last'.channel # WildCardChannel
        /\ Ran(last', last'.channel, "thrower"))
       => /\ last'.threw
          /\ Len(last'.calls) = 1
          /\ \A i \in DOMAIN last'.trace : last'.trace[i].chan = last'.channel
          /\ channels'[WildCardChannel] = channels[WildCardChannel]
          /\ channels'[last'.channel].lastEvent = last'.data]_vars

\* publish("a", "") threw in a callback of "a" while "*" has a subscriber
\* and retains "x".
C30_Witness ==
    /\ last.kind = "hubPublish" /\ last.channel = "a" /\ last.data = ""
    /\ last.threw
    /\ Registered(channels, WildCardChannel) # {}
    /\ Retained(channels, WildCardChannel) = "x"
    /\ Retained(channels, "a") = ""

(* ---------------------------------------------------------------------- *)
(* C31                                                                     *)
(* ---------------------------------------------------------------------- *)

\* C31: the wildcard channel retains the value published last on the hub:
\* when EventHub.publish(name, v) returns normally, whatever the name, the
\* wildcard channel's lastEvent is v, and a later subscribe("*", cb, true)
\* invokes cb once, with the envelope {channel: "*", data: v}.
C31_WildcardRetainsLatest ==
    [][/\ (last'.kind = "hubPublish" /\ npublish' = npublish + 1 /\ ~last'.threw)
          => channels'[WildCardChannel].lastEvent = last'.data
       /\ (/\ last'.kind = "subscribe"
           /\ last'.channel = WildCardChannel
           /\ last'.replay
           /\ channels[WildCardChannel].lastEvent # Undefined)
          => /\ Len(last'.trace) = 1
             /\ last'.trace[1].id = last'.ret
             /\ last'.trace[1].channel = WildCardChannel
             /\ last'.trace[1].data = channels[WildCardChannel].lastEvent]_vars

(* ---------------------------------------------------------------------- *)
(* C32                                                                     *)
(* ---------------------------------------------------------------------- *)

\* C32: in every reachable state each entry of the channel map is stored
\* under its channel's own name, which therefore never changes, and every
\* envelope a callback was handed names the channel the callback is
\* subscribed to.
C32_KeyIsName ==
    /\ \A c \in DOMAIN channels : channels[c].name = c
    /\ \A i \in DOMAIN last.trace : last.trace[i].channel = last.trace[i].chan

\* With channels "*", "a" and "b", a publish on "b" reached a subscriber
\* of "b" with an envelope that names "b".
C32_Witness ==
    /\ DOMAIN channels = Names
    /\ last.kind = "hubPublish" /\ last.channel = "b"
    /\ \E i \in DOMAIN last.trace :
          last.trace[i].chan = "b" /\ last.trace[i].channel = "b"
    /\ channels["a"].name = "a" /\ Registered(channels, "a") # {}

(* ---------------------------------------------------------------------- *)
(* C33                                                                     *)
(* ---------------------------------------------------------------------- *)

\* C33: EventHub.lastEvent(name) invokes no callback, publishes nothing
\* and leaves every existing channel, the handles and the subscribe counts
\* as they are; it returns the channel's retained value; when the name has
\* a channel the hub is unchanged, when it has none the only change is the
\* channel added under that name, which is empty.
C33_LastEventReads ==
    [][last'.kind = "lastEvent"
       => /\ last'.trace = << >>
          /\ last'.calls = << >>
          /\ ~last'.threw
          /\ last'.ret = Retained(channels, last'.channel)
          /\ handles' = handles
          /\ \A c \in DOMAIN channels :
                c \in DOMAIN channels' /\ channels'[c] = channels[c]
          /\ last'.channel \in DOMAIN channels
                => channels' = channels /\ subscribed' = subscribed
          /\ \A c \in (DOMAIN channels') \ (DOMAIN channels) :
                /\ c = last'.channel
                /\ channels'[c].lastEvent = Undefined
                /\ channels'[c].lastId = 0
                /\ DOMAIN channels'[c].callbacks = {}]_vars

\* lastEvent("a") where "a" retains "x" and has a subscriber: "x" is
\* returned, the subscriber and the value are still there.
C33_Witness ==
    /\ last.kind = "lastEvent" /\ last.channel = "a" /\ last.ret = "x"
    /\ Retained(channels, "a") = "x"
    /\ Registered(channels, "a") # {}
    /\ "b" \in DOMAIN channels

(* ---------------------------------------------------------------------- *)
(* C34                                                                     *)
(* ---------------------------------------------------------------------- *)

\* The ids under which the callback cb is registered on channel c.
RegisteredAs(chs, c, cb) == {id \in Registered(chs, c) : chs[c].callbacks[id] = cb}

\* C34: subscribing a callback that is registered on the channel already
\* makes one more registration, under an id of its own; a publish invokes
\* a callback once per registration it has; an unsubscribe removes the
\* registration of its handle and no other of the same callback.
C34_SameCallbackTwice ==
    [][/\ (last'.kind = "subscribe" /\ ~last'.threw)
          => LET was == RegisteredAs(channels, last'.channel, last'.callback)
             IN  /\ last'.ret \notin was
                 /\ RegisteredAs(channels', last'.channel, last'.callback)
                       = was \cup {last'.ret}
       /\ (IsPublish(last') /\ npublish' = npublish + 1)
          => \A cb \in world.callbacks :
                Cardinality({i \in DOMAIN last'.trace :
                                /\ last'.trace[i].call = 1
                                /\ last'.trace[i].cb = cb})
                  = Cardinality(RegisteredAs(channels, last'.channel, cb))
       /\ (last'.kind = "unsubscribe" /\ ~last'.again)
          => \A cb \in world.callbacks :
                RegisteredAs(channels', last'.channel, cb)
                  = RegisteredAs(channels, last'.channel, cb) \ {last'.id}]_vars

\* The same callback subscribed twice to "a" and invoked twice by a first
\* publish; handle 1 unsubscribed; a second publish invokes it once, as
\* registration 2.
C34_Witness ==
    /\ last.kind = "publish" /\ last.channel = "a" /\ npublish = 2
    /\ {[chan |-> "a", id |-> 1], [chan |-> "a", id |-> 2]} \subseteq handles
    /\ Registered(channels, "a") = {2}
    /\ Len(last.trace) = 1
    /\ last.trace[1].id = 2 /\ last.trace[1].cb = "rec"

(* ---------------------------------------------------------------------- *)
(* C35                                                                     *)
(* ---------------------------------------------------------------------- *)

\* C35: addEventHub(hub) appends hub to eventHubs and then calls
\* initialiseEventHub once, with that hub and the connector's channel
\* list, and returns the connector; after n calls eventHubs holds the n
\* hubs in call order, a hub added twice being there twice.
C35_AddEventHub ==
    /\ [](/\ connector.eventHubs = connector.asked
          /\ Len(connector.initialised) = Len(connector.asked)
          /\ \A i \in DOMAIN connector.eventHubs :
                /\ connector.initialised[i].hub = connector.eventHubs[i]
                /\ connector.initialised[i].channels = connector.channels
                /\ connector.initialised[i].eventHubs
                      = SubSeq(connector.eventHubs, 1, i))
    /\ [][connector' # connector
          => /\ \E hub \in Hubs :
                   /\ connector'.eventHubs = Append(connector.eventHubs, hub)
                   /\ connector'.initialised
                         = Append(connector.initialised,
                                  [hub |-> hub, channels |-> connector.channels,
                                   eventHubs |-> connector'.eventHubs])
             /\ connector'.channels = connector.channels
             /\ connector'.ret = "this"]_vars

\* The same hub added twice, then another: three entries, three calls of
\* initialiseEventHub with the connector's two channels.
C35_Witness ==
    /\ connector.asked = <<"hub1", "hub1", "hub2">>
    /\ connector.eventHubs = <<"hub1", "hub1", "hub2">>
    /\ Len(connector.initialised) = 3
    /\ connector.initialised[2].hub = "hub1"
    /\ connector.initialised[2].channels = <<"a", WildCardChannel>>
    /\ connector.ret = "this"

====
